---------------------------- MODULE Spec2Model ----------------------------
(***************************************************************************)
(* The function-calling orchestration loop of the Inflection Journey       *)
(* Reports Bot: ChatInterface with its configuration check and            *)
(* handleSendMessage, the useChat hook, the OpenAIClient and the two       *)
(* MCPClient modules of the repository.  Spec is a chat session; ProbeSpec *)
(* applies validateConfig and the steps of fetchSpecAndInvoke to inputs    *)
(* drawn from bounded sets.                                                *)
(*                                                                         *)
(* A JavaScript string is a TLA+ string.  A content of null and a content  *)
(* of "" are both written "": every use in the code is `x || y` or `!x`,   *)
(* which cannot tell them apart.  A JSON scalar is a record tagged with    *)
(* its typeof; a JSON object is a function from its keys to its values.    *)
(***************************************************************************)
EXTENDS Integers, Sequences, FiniteSets, TLC

VARIABLES
    messages,       \* useChat: const [messages, setMessages]
    isLoading,      \* useChat: const [isLoading, setIsLoading]
    openaiHistory,  \* useChat: const [openaiHistory, setOpenaiHistory]
    inputValue,     \* ChatInterface: const [inputValue, setInputValue]
    now,            \* Date.now()
    mcpModule,      \* which module './mcp-client' resolves to in the build
    calls,          \* the invocations of sendMessage: position and closure
    openaiLog,      \* the requests POSTed to the chat-completions endpoint
    mcpLog,         \* the requests POSTed to <baseUrl>/mcp
    probe,          \* MCPClient applied to one tool and one argument payload
    env,            \* import.meta.env
    configErrors,   \* ChatInterface: const [configErrors, setConfigErrors]
    mounted         \* the effect ChatInterface registers on mount has run

vars == <<messages, isLoading, openaiHistory, inputValue, now, mcpModule,
          calls, openaiLog, mcpLog, probe, env, configErrors, mounted>>

----------------------------------------------------------------------------
(* Bounds of the model *)

MaxTurns == 2       \* accepted submissions per session
StartTime == 10     \* Date.now() when the page loads
ClockSpan == 1      \* milliseconds that may pass during the session

MaxClock == StartTime + ClockSpan

----------------------------------------------------------------------------
(* JSON values *)

Str(s) == [t |-> "string", s |-> s, n |-> 0]
Num(n) == [t |-> "number", s |-> "", n |-> n]

\* true
JsonTrue == [t |-> "boolean", s |-> "", n |-> 0]

typeof(v) == v.t

EmptyObject == [k \in {} |-> Str("")]

\* A parsed JSON text: an object, or null (typeof null is "object" too, but it
\* has no own keys).
Obj(o) == [kind |-> "object", obj |-> o]
JsonNull == [kind |-> "null", obj |-> EmptyObject]

\* { ...x }: the own enumerable keys of x; spreading null gives {}.
Spread(x) == IF x.kind = "object" THEN x.obj ELSE EmptyObject

\* The order in which Object.entries and for..of visit keys is insertion
\* order; the model visits the keys of every object in this one order.
FieldOrder == <<"journey_id", "start_date", "end_date",
                "page_size", "page_number", "search_keyword", "limit",
                "constructor">>

\* Names every object created by JSON.parse inherits from Object.prototype:
\* o[name] is a function, not undefined, though name is no own key of o.
ObjectPrototype == {"constructor"}

RECURSIVE KeysFrom(_, _)
KeysFrom(o, i) ==
    IF i > Len(FieldOrder) THEN <<>>
    ELSE (IF FieldOrder[i] \in DOMAIN o THEN <<FieldOrder[i]>> ELSE <<>>)
         \o KeysFrom(o, i + 1)

\* Object.keys(o)
Keys(o) == KeysFrom(o, 1)

RECURSIVE Join(_, _)
\* Array.prototype.join
Join(xs, sep) ==
    IF xs = <<>> THEN ""
    ELSE IF Len(xs) = 1 THEN xs[1]
    ELSE xs[1] \o sep \o Join(Tail(xs), sep)

----------------------------------------------------------------------------
(* The tool host: what it may answer to a POST to <baseUrl>/mcp *)

\* The two modules of the repository that define class MCPClient.
ValidatingClient == "part_001"
PlainClient == "utils/mcp-client.ts"
McpModules == {ValidatingClient, PlainClient}

IntegerField(hasDefault, default, hasMinimum, minimum, hasMaximum, maximum) ==
    [type |-> "integer", hasDefault |-> hasDefault, default |-> Num(default),
     hasMinimum |-> hasMinimum, minimum |-> minimum,
     hasMaximum |-> hasMaximum, maximum |-> maximum]

StringField ==
    [type |-> "string", hasDefault |-> FALSE, default |-> Str(""),
     hasMinimum |-> FALSE, minimum |-> 0, hasMaximum |-> FALSE, maximum |-> 0]

\* list_journeys as the tool host publishes it: the fields getMCPFunctions
\* lists, with the defaults their descriptions state.
ListJourneysTool ==
    [name |-> "list_journeys",
     description |-> "List all marketing journeys from Inflection.io.",
     inputSchema |->
        [hasProperties |-> TRUE,
         properties |->
            ("page_size" :> IntegerField(TRUE, 30, TRUE, 1, TRUE, 100)) @@
            ("page_number" :> IntegerField(TRUE, 1, TRUE, 1, FALSE, 0)) @@
            ("search_keyword" :> StringField),
         hasRequired |-> TRUE,
         required |-> <<>>]]

\* get_email_reports as the tool host publishes it: the fields
\* getMCPFunctions lists.
GetEmailReportsTool ==
    [name |-> "get_email_reports",
     description |-> "Get comprehensive email performance reports.",
     inputSchema |->
        [hasProperties |-> TRUE,
         properties |->
            ("journey_id" :> StringField) @@
            ("start_date" :> StringField) @@
            ("end_date" :> StringField),
         hasRequired |-> TRUE,
         required |-> <<"journey_id">>]]

\* result of tools/list: { tools: [...] } with both tools or with
\* list_journeys alone, or a result that carries no tools.
ToolsListResults ==
    { [hasTools |-> TRUE, tools |-> <<ListJourneysTool, GetEmailReportsTool>>],
      [hasTools |-> TRUE, tools |-> <<ListJourneysTool>>],
      [hasTools |-> FALSE, tools |-> <<>>] }

TextBlock(text) == [type |-> "text", text |-> text]
ImageBlock == [type |-> "image", text |-> ""]

\* result of tools/call: commonly { content: [{type, text}, ...] }, else any
\* payload, here { total: n }.
ToolsCallResults ==
    { [hasContent |-> TRUE, content |-> <<TextBlock("A"), ImageBlock, TextBlock("B")>>,
       total |-> 0],
      [hasContent |-> FALSE, content |-> <<>>, total |-> 2] }

\* JSON.stringify of a tools/call result that carries no content array.
JSONstringify(toolResult) == "{\"total\":" \o ToString(toolResult.total) \o "}"

\* The ways a POST to the tool host fails: fetch rejects, a non-2xx response,
\* a 2xx response whose body carries an error field.
NetworkFailure ==
    [kind |-> "network_error", status |-> 0, statusText |-> "", code |-> 0,
     message |-> "Failed to fetch"]
HttpFailure ==
    [kind |-> "http", status |-> 500, statusText |-> "Internal Server Error",
     code |-> 0, message |-> ""]
RpcFailure ==
    [kind |-> "http", status |-> 200, statusText |-> "OK", code |-> -32603,
     message |-> "Internal error"]

RpcSuccess ==
    [kind |-> "http", status |-> 200, statusText |-> "OK", code |-> 0,
     message |-> ""]

\* A response of the tool host: the HTTP exchange and, when it carries one,
\* the result field of the JSON-RPC envelope.
ToolsListResponses ==
    { [http |-> f, result |-> [hasTools |-> FALSE, tools |-> <<>>]] :
        f \in {HttpFailure} }
    \cup { [http |-> RpcSuccess, result |-> r] : r \in ToolsListResults }

ToolsCallResponses ==
    { [http |-> f, result |-> [hasContent |-> FALSE, content |-> <<>>, total |-> 0]] :
        f \in {RpcFailure} }
    \cup { [http |-> RpcSuccess, result |-> r] : r \in ToolsCallResults }

----------------------------------------------------------------------------
(* MCPClient *)

\* response.ok
ResponseOk(http) == http.status >= 200 /\ http.status <= 299

\* A makeRPCRequest that returns data.result without a look at data.error.
makeRPCRequestIgnoringErrorField(http) ==
    IF http.kind = "network_error"
    THEN [ok |-> FALSE, error |-> "RPC request failed: " \o http.message]
    ELSE IF ~ResponseOk(http)
    THEN [ok |-> FALSE,
          error |-> "RPC request failed: HTTP error: " \o ToString(http.status)
                    \o " " \o http.statusText]
    ELSE [ok |-> TRUE, error |-> ""]

\* makeRPCRequest, from the response on: the error it throws, if any.
makeRPCRequest(http) ==
    IF http.kind = "network_error"
    THEN [ok |-> FALSE, error |-> "RPC request failed: " \o http.message]
    ELSE IF ~ResponseOk(http)
    THEN [ok |-> FALSE,
          error |-> "RPC request failed: HTTP error: " \o ToString(http.status)
                    \o " " \o http.statusText]
    ELSE IF http.code # 0
    THEN [ok |-> FALSE,
          error |-> "RPC request failed: RPC error: " \o ToString(http.code)
                    \o " - " \o http.message]
    ELSE [ok |-> TRUE, error |-> ""]

RECURSIVE find(_, _)
\* result.tools?.find(t => t.name === toolName): <<tool>>, or <<>> for undefined
find(tools, toolName) ==
    IF tools = <<>> THEN <<>>
    ELSE IF Head(tools).name = toolName THEN <<Head(tools)>>
    ELSE find(Tail(tools), toolName)

\* A getToolSpec that takes the first tool listed, whatever its name.
getToolSpecFirstListed(toolName, resp) ==
    LET rpc == makeRPCRequest(resp.http)
        tool == IF resp.result.hasTools /\ resp.result.tools # <<>>
                THEN << Head(resp.result.tools) >> ELSE <<>>
        prefix == "Error fetching tool spec for " \o toolName \o ": "
    IN  IF ~rpc.ok
        THEN [ok |-> FALSE, error |-> prefix \o rpc.error, tool |-> <<>>]
        ELSE IF tool = <<>>
        THEN [ok |-> FALSE, error |-> prefix \o "Tool '" \o toolName \o "' not found",
              tool |-> <<>>]
        ELSE [ok |-> TRUE, error |-> "", tool |-> tool]

getToolSpec(toolName, resp) ==
    LET rpc == makeRPCRequest(resp.http)
        tool == IF resp.result.hasTools THEN find(resp.result.tools, toolName) ELSE <<>>
        prefix == "Error fetching tool spec for " \o toolName \o ": "
    IN  IF ~rpc.ok
        THEN [ok |-> FALSE, error |-> prefix \o rpc.error, tool |-> <<>>]
        ELSE IF tool = <<>>
        THEN [ok |-> FALSE, error |-> prefix \o "Tool '" \o toolName \o "' not found",
              tool |-> <<>>]
        ELSE [ok |-> TRUE, error |-> "", tool |-> tool]

\* processArguments that lets a default replace a value that was given.
processArgumentsOverwriting(arguments_, schema) ==
    LET processed == Spread(arguments_)
        defaulted == IF schema.hasProperties
                     THEN { f \in DOMAIN schema.properties : schema.properties[f].hasDefault }
                     ELSE {}
    IN  [f \in (DOMAIN processed) \cup defaulted |->
            IF f \in defaulted THEN schema.properties[f].default ELSE processed[f]]

processArguments(arguments_, schema) ==
    LET processed == Spread(arguments_)
        defaulted == IF schema.hasProperties
                     THEN { f \in DOMAIN schema.properties :
                              f \notin DOMAIN processed /\ schema.properties[f].hasDefault }
                     ELSE {}
    IN  [f \in (DOMAIN processed) \cup defaulted |->
            IF f \in DOMAIN processed THEN processed[f]
            ELSE schema.properties[f].default]

RECURSIVE Flatten(_)
Flatten(xss) == IF xss = <<>> THEN <<>> ELSE Head(xss) \o Flatten(Tail(xss))

\* const fieldSchema = schema.properties[fieldName]; !fieldSchema
HasNoFieldSchema(properties, fieldName) ==
    fieldName \notin DOMAIN properties /\ fieldName \notin ObjectPrototype

\* The loop body of validateArguments without its range validation.
FieldErrorsUnranged(fieldName, fieldValue, schema) ==
    IF HasNoFieldSchema(schema.properties, fieldName)
    THEN << "Unknown field: " \o fieldName >>
    ELSE IF fieldName \notin DOMAIN schema.properties
    THEN <<>>
    ELSE
      LET fieldSchema == schema.properties[fieldName] IN
        IF fieldSchema.type = "integer" /\ typeof(fieldValue) # "number"
        THEN << "Field " \o fieldName \o " must be a number" >>
        ELSE IF fieldSchema.type = "string" /\ typeof(fieldValue) # "string"
        THEN << "Field " \o fieldName \o " must be a string" >>
        ELSE <<>>

\* The loop body of validateArguments without its type validation.
FieldErrorsUntyped(fieldName, fieldValue, schema) ==
    IF HasNoFieldSchema(schema.properties, fieldName)
    THEN << "Unknown field: " \o fieldName >>
    ELSE IF fieldName \notin DOMAIN schema.properties
    THEN <<>>
    ELSE
      LET fieldSchema == schema.properties[fieldName] IN
        IF fieldSchema.type = "integer" /\ typeof(fieldValue) = "number"
        THEN (IF fieldSchema.hasMinimum /\ fieldValue.n < fieldSchema.minimum
              THEN << "Field " \o fieldName \o " must be at least "
                      \o ToString(fieldSchema.minimum) >>
              ELSE <<>>)
             \o
             (IF fieldSchema.hasMaximum /\ fieldValue.n > fieldSchema.maximum
              THEN << "Field " \o fieldName \o " must be at most "
                      \o ToString(fieldSchema.maximum) >>
              ELSE <<>>)
        ELSE <<>>

\* The errors validateArguments pushes for one entry of arguments_.  An
\* inherited fieldSchema has no type, so no test on it pushes an error.
FieldErrors(fieldName, fieldValue, schema) ==
    IF HasNoFieldSchema(schema.properties, fieldName)
    THEN << "Unknown field: " \o fieldName >>
    ELSE IF fieldName \notin DOMAIN schema.properties
    THEN <<>>
    ELSE
      LET fieldSchema == schema.properties[fieldName] IN
        (IF fieldSchema.type = "integer" /\ typeof(fieldValue) # "number"
         THEN << "Field " \o fieldName \o " must be a number" >>
         ELSE IF fieldSchema.type = "string" /\ typeof(fieldValue) # "string"
         THEN << "Field " \o fieldName \o " must be a string" >>
         ELSE <<>>)
        \o
        (IF fieldSchema.type = "integer" /\ typeof(fieldValue) = "number"
         THEN (IF fieldSchema.hasMinimum /\ fieldValue.n < fieldSchema.minimum
               THEN << "Field " \o fieldName \o " must be at least "
                       \o ToString(fieldSchema.minimum) >>
               ELSE <<>>)
              \o
              (IF fieldSchema.hasMaximum /\ fieldValue.n > fieldSchema.maximum
               THEN << "Field " \o fieldName \o " must be at most "
                       \o ToString(fieldSchema.maximum) >>
               ELSE <<>>)
         ELSE <<>>)

\* A validateArguments that stops at the first error.
ValidationErrorsFirstOnly(arguments_, schema) ==
    LET errors ==
          (IF schema.hasRequired
           THEN Flatten([i \in 1..Len(schema.required) |->
                          IF schema.required[i] \notin DOMAIN arguments_
                          THEN << "Missing required field: " \o schema.required[i] >>
                          ELSE <<>>])
           ELSE <<>>)
          \o
          (IF schema.hasProperties
           THEN LET keys == Keys(arguments_) IN
                Flatten([i \in 1..Len(keys) |->
                          FieldErrors(keys[i], arguments_[keys[i]], schema)])
           ELSE <<>>)
    IN  IF errors = <<>> THEN <<>> ELSE << Head(errors) >>

\* The errors array of validateArguments when it reaches its last statement.
ValidationErrors(arguments_, schema) ==
    (IF schema.hasRequired
     THEN Flatten([i \in 1..Len(schema.required) |->
                    IF schema.required[i] \notin DOMAIN arguments_
                    THEN << "Missing required field: " \o schema.required[i] >>
                    ELSE <<>>])
     ELSE <<>>)
    \o
    (IF schema.hasProperties
     THEN LET keys == Keys(arguments_) IN
          Flatten([i \in 1..Len(keys) |->
                    FieldErrors(keys[i], arguments_[keys[i]], schema)])
     ELSE <<>>)

validateArguments(toolName, arguments_, schema) ==
    LET errors == ValidationErrors(arguments_, schema) IN
      IF Len(errors) > 0
      THEN [ok |-> FALSE,
            error |-> "Invalid arguments for " \o toolName \o ": " \o Join(errors, ", ")]
      ELSE [ok |-> TRUE, error |-> ""]

\* An invokeTool that returns whatever the response holds.
invokeToolIgnoringErrors(toolName, resp) ==
    [ok |-> TRUE, error |-> "", result |-> resp.result]

\* invokeTool, from the response on.
invokeTool(toolName, resp) ==
    LET rpc == makeRPCRequest(resp.http) IN
      IF rpc.ok THEN [ok |-> TRUE, error |-> "", result |-> resp.result]
      ELSE [ok |-> FALSE,
            error |-> "Error invoking tool " \o toolName \o ": " \o rpc.error,
            result |-> resp.result]

\* A fetchSpecAndInvoke that validates the arguments as given and fills in
\* the defaults afterwards.
fetchSpecAndInvokeValidatingFirst(toolName, arguments_, resp) ==
    LET toolSpec == getToolSpec(toolName, resp) IN
      IF ~toolSpec.ok
      THEN [ok |-> FALSE, error |-> toolSpec.error, arguments |-> JsonNull]
      ELSE
        LET schema == toolSpec.tool[1].inputSchema
            valid == validateArguments(toolName, Spread(arguments_), schema)
        IN  IF ~valid.ok
            THEN [ok |-> FALSE, error |-> valid.error, arguments |-> JsonNull]
            ELSE [ok |-> TRUE, error |-> "",
                  arguments |-> Obj(processArguments(arguments_, schema))]

\* fetchSpecAndInvoke of part_001, from the tools/list response up to the
\* tools/call request: the arguments it sends, or the error it throws.
fetchSpecAndInvokeValidating(toolName, arguments_, resp) ==
    LET toolSpec == getToolSpec(toolName, resp) IN
      IF ~toolSpec.ok
      THEN [ok |-> FALSE, error |-> toolSpec.error, arguments |-> JsonNull]
      ELSE
        LET schema == toolSpec.tool[1].inputSchema
            processedArgs == processArguments(arguments_, schema)
            valid == validateArguments(toolName, processedArgs, schema)
        IN  IF ~valid.ok
            THEN [ok |-> FALSE, error |-> valid.error, arguments |-> JsonNull]
            ELSE [ok |-> TRUE, error |-> "", arguments |-> Obj(processedArgs)]

\* fetchSpecAndInvoke of utils/mcp-client.ts, likewise.
fetchSpecAndInvokePlain(toolName, arguments_, resp) ==
    LET toolSpec == getToolSpec(toolName, resp) IN
      IF ~toolSpec.ok
      THEN [ok |-> FALSE, error |-> toolSpec.error, arguments |-> JsonNull]
      ELSE [ok |-> TRUE, error |-> "", arguments |-> arguments_]

fetchSpecAndInvoke(module, toolName, arguments_, resp) ==
    IF module = ValidatingClient
    THEN fetchSpecAndInvokeValidating(toolName, arguments_, resp)
    ELSE fetchSpecAndInvokePlain(toolName, arguments_, resp)

----------------------------------------------------------------------------
(* The chat-completions endpoint: what it may answer *)

\* function_call.arguments, as the model may emit it.
ArgumentTexts == { "{}", "{oops", "null" }

\* function_call.name, as the model may emit it.
FunctionNames == { "list_journeys", "get_email_reports", "delete_journey" }

\* The function_calls of the model: each name with an empty object, an
\* unknown name and a known one with a text that does not parse, a known name
\* with a text that parses to no object.
FunctionCalls ==
    { c \in [present : {TRUE}, name : FunctionNames, arguments : ArgumentTexts] :
        \/ c.arguments = "{}"
        \/ c.arguments = "{oops" /\ c.name \in {"delete_journey", "list_journeys"}
        \/ c.arguments = "null" /\ c.name = "list_journeys" }

NoFunctionCall == [present |-> FALSE, name |-> "", arguments |-> ""]

OpenAIFailures ==
    { [kind |-> "http", status |-> 429, statusText |-> "Too Many Requests",
       message |-> "Rate limit reached"] }

\* fetch rejects.
OpenAIUnreachable ==
    [kind |-> "network_error", status |-> 0, statusText |-> "",
     message |-> "Failed to fetch"]

OpenAISuccess == [kind |-> "http", status |-> 200, statusText |-> "OK", message |-> ""]

\* Responses to the request of sendMessage: a rejected fetch, a non-2xx
\* response, a 2xx body without choices, a plain message, or a message with a
\* function_call.
SendMessageResponses ==
    { [http |-> f, hasChoice |-> FALSE, content |-> "", function_call |-> NoFunctionCall] :
        f \in OpenAIFailures \cup {OpenAIUnreachable} }
    \cup { [http |-> OpenAISuccess, hasChoice |-> FALSE, content |-> "",
            function_call |-> NoFunctionCall] }
    \cup { [http |-> OpenAISuccess, hasChoice |-> TRUE, content |-> c,
            function_call |-> NoFunctionCall] : c \in {"", "Hello there."} }
    \cup { [http |-> OpenAISuccess, hasChoice |-> TRUE, content |-> c,
            function_call |-> call] : c \in {""}, call \in FunctionCalls }

\* Responses to the request of sendFollowUpMessage.
FollowUpResponses ==
    { [http |-> f, hasChoice |-> FALSE, content |-> ""] : f \in OpenAIFailures }
    \cup { [http |-> OpenAISuccess, hasChoice |-> TRUE, content |-> c] :
            c \in {"", "Here are your journeys: A, B."} }

----------------------------------------------------------------------------
(* OpenAIClient *)

\* getMCPFunctions: the name of each function definition it returns, in order.
getMCPFunctions == << ListJourneysTool.name, GetEmailReportsTool.name >>

\* The functions field of the body of a request: sendMessage sends
\* getMCPFunctions(), sendFollowUpMessage sends none.
RequestFunctions(request) == IF request.functions THEN getMCPFunctions ELSE <<>>

\* JSON.parse on the texts the model emits here.
JSONparse(text) ==
    CASE text = "{}" -> [ok |-> TRUE, error |-> "", value |-> Obj(EmptyObject)]
      [] text = "{\"journey_id\":\"j1\"}" ->
            [ok |-> TRUE, error |-> "", value |-> Obj("journey_id" :> Str("j1"))]
      [] text = "{\"page_size\":500}" ->
            [ok |-> TRUE, error |-> "", value |-> Obj("page_size" :> Num(500))]
      [] text = "{\"limit\":\"5\"}" ->
            [ok |-> TRUE, error |-> "", value |-> Obj("limit" :> Str("5"))]
      [] text = "null" -> [ok |-> TRUE, error |-> "", value |-> JsonNull]
      [] OTHER -> [ok |-> FALSE, error |-> "Unexpected token o in JSON at position 1",
                   value |-> JsonNull]

\* The body of a non-2xx response: errorData.error?.message || 'Unknown error'
ApiError(http) ==
    "OpenAI API error: " \o ToString(http.status) \o " " \o http.statusText \o " - "
    \o (IF http.message # "" THEN http.message ELSE "Unknown error")

\* A sendMessage that takes a body without choices for an empty answer.
sendMessageWithoutChoice(resp) ==
    LET failed(m) == [ok |-> FALSE, error |-> "Error communicating with OpenAI: " \o m,
                      content |-> "", function_call |-> NoFunctionCall]
    IN  IF resp.http.kind = "network_error" THEN failed(resp.http.message)
        ELSE IF ~ResponseOk(resp.http) THEN failed(ApiError(resp.http))
        ELSE [ok |-> TRUE, error |-> "", content |-> resp.content,
              function_call |-> resp.function_call]

\* sendMessage, from the response on.
sendMessage(resp) ==
    LET failed(m) == [ok |-> FALSE, error |-> "Error communicating with OpenAI: " \o m,
                      content |-> "", function_call |-> NoFunctionCall]
    IN  IF resp.http.kind = "network_error" THEN failed(resp.http.message)
        ELSE IF ~ResponseOk(resp.http) THEN failed(ApiError(resp.http))
        ELSE IF ~resp.hasChoice THEN failed("No response from OpenAI")
        ELSE [ok |-> TRUE, error |-> "", content |-> resp.content,
              function_call |-> resp.function_call]

supportedTools == {"list_journeys", "get_email_reports"}

HandleFunctionCallError(m) == "Error handling function call: " \o m

\* handleFunctionCall without its check against supportedTools.
handleFunctionCallForwarding(functionCall) ==
    LET args == JSONparse(functionCall.arguments) IN
      IF ~args.ok
      THEN [ok |-> FALSE, error |-> HandleFunctionCallError(args.error), args |-> JsonNull]
      ELSE [ok |-> TRUE, error |-> "", args |-> args.value]

\* handleFunctionCall up to its await: the error it throws, or the arguments
\* it hands to fetchSpecAndInvoke.
handleFunctionCall(functionCall) ==
    LET args == JSONparse(functionCall.arguments)
        toolName == functionCall.name
    IN  IF ~args.ok
        THEN [ok |-> FALSE, error |-> HandleFunctionCallError(args.error), args |-> JsonNull]
        ELSE IF toolName \notin supportedTools
        THEN [ok |-> FALSE,
              error |-> HandleFunctionCallError("Unsupported tool: " \o toolName),
              args |-> JsonNull]
        ELSE [ok |-> TRUE, error |-> "", args |-> args.value]

\* A sendFollowUpMessage that returns an empty content as it is.
sendFollowUpMessageAllowingEmpty(resp) ==
    LET failed(m) == [ok |-> FALSE, error |-> "Error sending follow-up message: " \o m,
                      content |-> ""]
    IN  IF resp.http.kind = "network_error" THEN failed(resp.http.message)
        ELSE IF ~ResponseOk(resp.http) THEN failed(ApiError(resp.http))
        ELSE IF ~resp.hasChoice
        THEN failed("No content in OpenAI response")
        ELSE [ok |-> TRUE, error |-> "", content |-> resp.content]

\* sendFollowUpMessage, from the response on.
sendFollowUpMessage(resp) ==
    LET failed(m) == [ok |-> FALSE, error |-> "Error sending follow-up message: " \o m,
                      content |-> ""]
    IN  IF resp.http.kind = "network_error" THEN failed(resp.http.message)
        ELSE IF ~ResponseOk(resp.http) THEN failed(ApiError(resp.http))
        ELSE IF ~resp.hasChoice \/ resp.content = ""
        THEN failed("No content in OpenAI response")
        ELSE [ok |-> TRUE, error |-> "", content |-> resp.content]

----------------------------------------------------------------------------
(* useChat and ChatInterface *)

GreetingId == 1

Greeting ==
    "Hello! I'm the Inflection Journey Reports Bot. I can help you with journey analytics, report generation, and insights about your customer journeys. How can I assist you today?"

\* What the user may type into the input box.
Texts == { "list journeys", "   " }

\* String.prototype.trim on the texts of the model.
\* A trim that removes nothing.
trimNothing(text) == text

trim(text) == IF text = "   " THEN "" ELSE text

\* A Message of the hook; isLoading undefined is FALSE, error undefined is "".
Message(id, content, sender, loading, error) ==
    [id |-> ToString(id), content |-> content, sender |-> sender,
     isLoading |-> loading, error |-> error]

\* A ChatMessage of the history; name undefined is "".
ChatMessage(role, content, name) == [role |-> role, content |-> content, name |-> name]

\* x || y on strings
Or(x, y) == IF x # "" THEN x ELSE y

\* No answer to tools/call has arrived.
NoResponse ==
    [kind |-> "none", status |-> 0, statusText |-> "", code |-> 0, message |-> ""]

\* No answer to tools/list has arrived.
NoListResponse ==
    [http |-> NoResponse, result |-> [hasTools |-> FALSE, tools |-> <<>>]]

\* The locals of an invocation of sendMessage before its first await; error
\* is the error its catch blocks receive, "" while none was thrown.
Closure(content, updatedHistory) ==
    [pc |-> "sendMessage", content |-> content, updatedHistory |-> updatedHistory,
     response |-> [content |-> "", function_call |-> NoFunctionCall],
     args |-> JsonNull, assistantMessageId |-> "", toolSpec |-> <<>>,
     listResponse |-> NoListResponse, toolResponse |-> NoResponse,
     toolResult |-> [hasContent |-> FALSE, content |-> <<>>, total |-> 0],
     historyWithFunction |-> <<>>, finalResponse |-> "", error |-> ""]

InFlight == { i \in DOMAIN calls : calls[i].pc # "returned" }

\* handleSendMessage without its test of isLoading.
handleSendMessageIgnoresLoading(value, loading) == trim(value) = ""

\* handleSendMessage: if (!inputValue.trim() || isLoading) return;
handleSendMessageReturns(value, loading) == trim(value) = "" \/ loading

\* The catch of the outer try of sendMessage.
GeneralError(prev, error, time) ==
    Append(prev, Message(time + 1, "Sorry, I encountered an error: " \o error,
                         "bot", FALSE, error))

\* A catch of the inner try that shows nothing.
FunctionCallErrorSwallowed(prev, error, time, assistantMessageId) == prev

\* The catch of the inner try of sendMessage.
FunctionCallError(prev, error, time, assistantMessageId) ==
    Append(prev,
           Message(time + 2,
                   "Sorry, I encountered an error while processing your request: "
                   \o error,
                   "bot", FALSE, error))

\* A map that also ends the loading state of every other message.
ResolveAndSettleAll(prev, assistantMessageId, finalResponse) ==
    [k \in DOMAIN prev |->
        IF prev[k].id = assistantMessageId
        THEN [prev[k] EXCEPT !.content = finalResponse, !.isLoading = FALSE]
        ELSE [prev[k] EXCEPT !.isLoading = FALSE]]

\* setMessages(prev => prev.map(msg => msg.id === assistantMessage.id ? ... : msg))
ResolveAssistantMessage(prev, assistantMessageId, finalResponse) ==
    [k \in DOMAIN prev |->
        IF prev[k].id = assistantMessageId
        THEN [prev[k] EXCEPT !.content = finalResponse, !.isLoading = FALSE]
        ELSE prev[k]]

RECURSIVE TextOf(_)
\* content.filter(item => item.type === 'text').map(item => item.text)
TextOf(content) ==
    IF content = <<>> THEN <<>>
    ELSE (IF Head(content).type = "text" THEN <<Head(content).text>> ELSE <<>>)
         \o TextOf(Tail(content))

\* functionContent as JSON.stringify(toolResult), whatever the result holds.
FunctionContentStringified(toolResult) == JSONstringify(toolResult)

\* functionContent without the else branch: the joined text blocks only.
FunctionContentTextOnly(toolResult) == Join(TextOf(toolResult.content), "\n")

\* functionContent of sendMessage
FunctionContent(toolResult) ==
    IF toolResult.hasContent THEN Join(TextOf(toolResult.content), "\n")
    ELSE JSONstringify(toolResult)

\* historyWithFunction without the spread of updatedHistory.
HistoryWithFunctionOnly(updatedHistory, content, toolName, functionContent) ==
    << ChatMessage("assistant", content, ""),
       ChatMessage("function", functionContent, toolName) >>

\* historyWithFunction without the assistant entry.
HistoryWithoutAssistant(updatedHistory, content, toolName, functionContent) ==
    Append(updatedHistory, ChatMessage("function", functionContent, toolName))

\* historyWithFunction with the function entry ahead of the assistant entry.
HistoryFunctionFirst(updatedHistory, content, toolName, functionContent) ==
    updatedHistory \o << ChatMessage("function", functionContent, toolName),
                         ChatMessage("assistant", content, "") >>

\* const historyWithFunction = [...updatedHistory, assistant, function]
HistoryWithFunction(updatedHistory, content, toolName, functionContent) ==
    updatedHistory \o << ChatMessage("assistant", content, ""),
                         ChatMessage("function", functionContent, toolName) >>

\* A follow-up request that offers the functions again.
FollowUpRequestWithFunctions(i, history) ==
    [call |-> i, functions |-> TRUE, messages |-> history]

\* The request of sendFollowUpMessage(history): the messages, no functions.
FollowUpRequest(i, history) ==
    [call |-> i, functions |-> FALSE, messages |-> history]

\* updatedHistory built from a history that misses its latest entry.
UpdatedHistoryStale(history, content) ==
    Append(SubSeq(history, 1, Len(history) - 1), ChatMessage("user", content, ""))

\* The history sendMessage stores before its first request.
UpdatedHistory(history, content) == Append(history, ChatMessage("user", content, ""))

\* A return that leaves isLoading as it is.
ReturnStillLoading(i, closure) ==
    /\ isLoading' = isLoading
    /\ inputValue' = ""
    /\ calls' = [calls EXCEPT ![i] = [closure EXCEPT !.pc = "returned"]]

\* finally { setIsLoading(false) }, then handleSendMessage: setInputValue('')
Return(i, closure) ==
    /\ isLoading' = FALSE
    /\ inputValue' = ""
    /\ calls' = [calls EXCEPT ![i] = [closure EXCEPT !.pc = "returned"]]

\* What import.meta.env may hold; a variable that is not set reads as "",
\* which `||` treats like undefined.
PlaceholderKey == "your-openai-api-key-here"
DefaultBaseUrl == "http://localhost:3001"

Envs ==
    [VITE_OPENAI_API_KEY : {"", PlaceholderKey, "sk-test"},
     VITE_MCP_SERVER_URL : {"", "https://mcp.example.com"}]

\* The environments of the sessions of the chat: the tool host URL is set.
SessionEnvs == { e \in Envs : e.VITE_MCP_SERVER_URL # "" }

API_CONFIG ==
    [OPENAI_API_KEY |-> Or(env.VITE_OPENAI_API_KEY, PlaceholderKey),
     MCP_SERVER |-> [baseUrl |-> Or(env.VITE_MCP_SERVER_URL, DefaultBaseUrl)]]

validateConfig ==
    (IF API_CONFIG.OPENAI_API_KEY = "" \/ API_CONFIG.OPENAI_API_KEY = PlaceholderKey
     THEN << "OpenAI API key is not configured. Please set VITE_OPENAI_API_KEY environment variable." >>
     ELSE <<>>)
    \o
    (IF API_CONFIG.MCP_SERVER.baseUrl = ""
     THEN << "MCP Server URL is not configured. Please set VITE_MCP_SERVER_URL environment variable." >>
     ELSE <<>>)

\* A ChatInterface that renders the chat whatever configErrors holds.
InputAlwaysRendered == TRUE

\* ChatInterface renders the chat, with its input and button, unless
\* configErrors.length > 0, when it renders the configuration errors instead.
InputRendered == configErrors = <<>>

\* A plain branch that asks the model a second time.
PlainAnswerWithFollowUp(i, received) ==
    /\ openaiHistory' = Append(openaiHistory,
                               ChatMessage("assistant", received.response.content, ""))
    /\ openaiLog' = Append(openaiLog,
                           [call |-> i, functions |-> FALSE, messages |-> openaiHistory'])
    /\ calls' = [calls EXCEPT ![i] = [received EXCEPT !.pc = "followUp"]]
    /\ UNCHANGED <<messages, isLoading, inputValue, mcpLog>>

\* The else branch of sendMessage: the response carries no function_call.
PlainAnswer(i, received) ==
    /\ messages' = Append(messages,
                          Message(now + 1,
                                  Or(received.response.content,
                                     "I apologize, but I couldn't generate a response."),
                                  "bot", FALSE, ""))
    /\ openaiHistory' = Append(openaiHistory,
                               ChatMessage("assistant", received.response.content, ""))
    /\ Return(i, received)
    /\ UNCHANGED <<openaiLog, mcpLog>>

\* No application of MCPClient on its own is under way.
NoProbe ==
    [pc |-> "none", tool |-> ListJourneysTool, arguments |-> JsonNull,
     processedArgs |-> EmptyObject, again |-> EmptyObject,
     errors |-> <<>>,
     validation |-> [ok |-> TRUE, error |-> ""],
     outcome |-> [ok |-> TRUE, error |-> "", arguments |-> JsonNull],
     http |-> RpcSuccess,
     listed |-> [ok |-> TRUE, error |-> "", tool |-> <<>>],
     invoked |-> [ok |-> TRUE, error |-> "",
                  result |-> [hasContent |-> FALSE, content |-> <<>>, total |-> 0]]]

Init ==
    /\ messages = << Message(GreetingId, Greeting, "bot", FALSE, "") >>
    /\ isLoading = FALSE
    /\ openaiHistory = << ChatMessage("assistant", Greeting, "") >>
    /\ inputValue = ""
    /\ now = StartTime
    /\ mcpModule \in McpModules
    /\ calls = <<>>
    /\ openaiLog = <<>>
    /\ mcpLog = <<>>
    /\ probe = NoProbe
    /\ env \in SessionEnvs
    /\ configErrors = <<>>
    /\ mounted = FALSE

\* useEffect(() => { setConfigErrors(validateConfig()) }, []): the effect of
\* the first render runs.
Mount ==
    /\ ~mounted
    /\ mounted' = TRUE
    /\ configErrors' = validateConfig
    /\ UNCHANGED <<messages, isLoading, openaiHistory, inputValue, now, mcpModule,
                   calls, openaiLog, mcpLog, probe, env>>

\* Input onChange; the input is disabled while isLoading.  React runs the
\* pending effects of the previous render before it renders the update.
TypeInput(text) ==
    /\ InputRendered
    /\ ~isLoading
    /\ Len(calls) < MaxTurns
    /\ inputValue' = text
    /\ mounted' = TRUE
    /\ configErrors' = IF mounted THEN configErrors ELSE validateConfig
    /\ UNCHANGED <<messages, isLoading, openaiHistory, now, mcpModule, calls,
                   openaiLog, mcpLog, probe, env>>

\* handleSendMessage returns at its first statement.
SubmitIgnored ==
    /\ InputRendered
    /\ handleSendMessageReturns(inputValue, isLoading)
    /\ UNCHANGED vars

\* sendMessage up to its first await, without setIsLoading(true).
SubmitNotBusy ==
    /\ InputRendered
    /\ ~handleSendMessageReturns(inputValue, isLoading)
    /\ trim(inputValue) # ""
    /\ Len(calls) < MaxTurns
    /\ LET content == inputValue
           updatedHistory == UpdatedHistory(openaiHistory, content)
       IN  /\ messages' = Append(messages, Message(now, content, "user", FALSE, ""))
           /\ openaiHistory' = updatedHistory
           /\ openaiLog' = Append(openaiLog,
                                  [call |-> Len(calls) + 1, functions |-> TRUE,
                                   messages |-> updatedHistory])
           /\ calls' = Append(calls, Closure(content, updatedHistory))
    /\ UNCHANGED <<isLoading, inputValue, now, mcpModule, mcpLog, probe,
                   env, configErrors, mounted>>

\* handleSendMessage calls sendMessage, which runs up to its first await.
Submit ==
    /\ InputRendered
    /\ ~handleSendMessageReturns(inputValue, isLoading)
    /\ trim(inputValue) # ""
    /\ Len(calls) < MaxTurns
    /\ LET content == inputValue
           updatedHistory == UpdatedHistory(openaiHistory, content)
       IN  /\ messages' = Append(messages, Message(now, content, "user", FALSE, ""))
           /\ isLoading' = TRUE
           /\ openaiHistory' = updatedHistory
           /\ openaiLog' = Append(openaiLog,
                                  [call |-> Len(calls) + 1, functions |-> TRUE,
                                   messages |-> updatedHistory])
           /\ calls' = Append(calls, Closure(content, updatedHistory))
    /\ UNCHANGED <<inputValue, now, mcpModule, mcpLog, probe,
                   env, configErrors, mounted>>

\* The request of sendMessage is answered; sendMessage of the hook runs up to
\* its next await or to its end.
SendMessageResponds(i, resp) ==
    /\ i \in DOMAIN calls
    /\ calls[i].pc = "sendMessage"
    /\ LET response == sendMessage(resp)
           received == [calls[i] EXCEPT
                          !.response = [content |-> response.content,
                                        function_call |-> response.function_call]]
       IN
         IF ~response.ok
         THEN /\ messages' = GeneralError(messages, response.error, now)
              /\ Return(i, [calls[i] EXCEPT !.error = response.error])
              /\ UNCHANGED <<openaiHistory, openaiLog, mcpLog>>
         ELSE IF response.function_call.present
         THEN LET assistantMessage ==
                      Message(now + 1, Or(response.content, "I'm processing your request..."),
                              "bot", TRUE, "")
                  withAssistant == Append(messages, assistantMessage)
                  started == handleFunctionCall(response.function_call)
                  pending == [received EXCEPT !.assistantMessageId = assistantMessage.id]
              IN  IF ~started.ok
                  THEN /\ messages' = FunctionCallError(withAssistant, started.error, now,
                                                        assistantMessage.id)
                       /\ Return(i, [pending EXCEPT !.error = started.error])
                       /\ UNCHANGED <<openaiHistory, openaiLog, mcpLog>>
                  ELSE /\ messages' = withAssistant
                       /\ mcpLog' = Append(mcpLog,
                                           [call |-> i, method |-> "tools/list",
                                            name |-> "", arguments |-> JsonNull])
                       /\ calls' = [calls EXCEPT ![i] =
                                      [pending EXCEPT !.pc = "tools/list",
                                                      !.args = started.args]]
                       /\ UNCHANGED <<isLoading, inputValue, openaiHistory, openaiLog>>
         ELSE PlainAnswer(i, received)
    /\ UNCHANGED <<now, mcpModule, probe, env, configErrors, mounted>>

\* tools/list is answered: getToolSpec, then the rest of fetchSpecAndInvoke up
\* to the tools/call request.
ToolsListResponds(i, resp) ==
    /\ i \in DOMAIN calls
    /\ calls[i].pc = "tools/list"
    /\ LET toolName == calls[i].response.function_call.name
           checked == fetchSpecAndInvoke(mcpModule, toolName, calls[i].args, resp)
           fetched == [calls[i] EXCEPT !.toolSpec = getToolSpec(toolName, resp).tool,
                                       !.listResponse = resp]
       IN  IF ~checked.ok
           THEN /\ messages' = FunctionCallError(messages,
                                                 HandleFunctionCallError(checked.error), now,
                                                 calls[i].assistantMessageId)
                /\ Return(i, [fetched EXCEPT
                                !.error = HandleFunctionCallError(checked.error)])
                /\ UNCHANGED mcpLog
           ELSE /\ mcpLog' = Append(mcpLog,
                                    [call |-> i, method |-> "tools/call",
                                     name |-> toolName, arguments |-> checked.arguments])
                /\ calls' = [calls EXCEPT ![i] = [fetched EXCEPT !.pc = "tools/call"]]
                /\ UNCHANGED <<messages, isLoading, inputValue>>
    /\ UNCHANGED <<openaiHistory, now, mcpModule, openaiLog, probe,
                   env, configErrors, mounted>>

\* tools/call is answered: invokeTool returns or throws; on a result the hook
\* folds it into the history and sends the follow-up request.
ToolsCallResponds(i, resp) ==
    /\ i \in DOMAIN calls
    /\ calls[i].pc = "tools/call"
    /\ LET toolName == calls[i].response.function_call.name
           invoked == invokeTool(toolName, resp)
           answered == [calls[i] EXCEPT !.toolResponse = resp.http]
       IN  IF ~invoked.ok
           THEN /\ messages' = FunctionCallError(messages,
                                                 HandleFunctionCallError(invoked.error), now,
                                                 calls[i].assistantMessageId)
                /\ Return(i, [answered EXCEPT
                                !.error = HandleFunctionCallError(invoked.error)])
                /\ UNCHANGED <<openaiHistory, openaiLog>>
           ELSE LET historyWithFunction ==
                        HistoryWithFunction(calls[i].updatedHistory,
                                            calls[i].response.content,
                                            toolName, FunctionContent(invoked.result))
                IN  /\ openaiHistory' = historyWithFunction
                    /\ openaiLog' = Append(openaiLog,
                                           FollowUpRequest(i, historyWithFunction))
                    /\ calls' = [calls EXCEPT ![i] =
                                   [answered EXCEPT
                                      !.pc = "followUp",
                                      !.toolResult = invoked.result,
                                      !.historyWithFunction = historyWithFunction]]
                    /\ UNCHANGED <<messages, isLoading, inputValue>>
    /\ UNCHANGED <<now, mcpModule, mcpLog, probe,
                   env, configErrors, mounted>>

\* The request of sendFollowUpMessage is answered, and sent again when the
\* answer is a failure.
FollowUpRespondsRetrying(i, resp) ==
    /\ i \in DOMAIN calls
    /\ calls[i].pc = "followUp"
    /\ LET finalResponse == sendFollowUpMessage(resp) IN
         IF ~finalResponse.ok
         THEN /\ openaiLog' = Append(openaiLog,
                                     FollowUpRequest(i, calls[i].historyWithFunction))
              /\ UNCHANGED <<messages, isLoading, inputValue, openaiHistory, calls>>
         ELSE /\ messages' = ResolveAssistantMessage(messages, calls[i].assistantMessageId,
                                                     finalResponse.content)
              /\ openaiHistory' = Append(openaiHistory,
                                         ChatMessage("assistant", finalResponse.content, ""))
              /\ Return(i, [calls[i] EXCEPT !.finalResponse = finalResponse.content])
              /\ UNCHANGED openaiLog
    /\ UNCHANGED <<now, mcpModule, mcpLog, probe, env, configErrors, mounted>>

\* The request of sendFollowUpMessage is answered.
FollowUpResponds(i, resp) ==
    /\ i \in DOMAIN calls
    /\ calls[i].pc = "followUp"
    /\ LET finalResponse == sendFollowUpMessage(resp) IN
         IF ~finalResponse.ok
         THEN /\ messages' = FunctionCallError(messages, finalResponse.error, now,
                                               calls[i].assistantMessageId)
              /\ Return(i, [calls[i] EXCEPT !.error = finalResponse.error])
              /\ UNCHANGED openaiHistory
         ELSE /\ messages' = ResolveAssistantMessage(messages, calls[i].assistantMessageId,
                                                     finalResponse.content)
              /\ openaiHistory' = Append(openaiHistory,
                                         ChatMessage("assistant", finalResponse.content, ""))
              /\ Return(i, [calls[i] EXCEPT !.finalResponse = finalResponse.content])
    /\ UNCHANGED <<now, mcpModule, openaiLog, mcpLog, probe,
                   env, configErrors, mounted>>

\* A millisecond passes.
Tick ==
    /\ now < MaxClock
    /\ now' = now + 1
    /\ UNCHANGED <<messages, isLoading, openaiHistory, inputValue, mcpModule, calls,
                   openaiLog, mcpLog, probe,
                   env, configErrors, mounted>>

Next ==
    \/ Mount
    \/ \E text \in Texts : TypeInput(text)
    \/ SubmitIgnored
    \/ Submit
    \/ \E i \in 1..MaxTurns, resp \in SendMessageResponses : SendMessageResponds(i, resp)
    \/ \E i \in 1..MaxTurns, resp \in ToolsListResponses : ToolsListResponds(i, resp)
    \/ \E i \in 1..MaxTurns, resp \in ToolsCallResponses : ToolsCallResponds(i, resp)
    \/ \E i \in 1..MaxTurns, resp \in FollowUpResponses : FollowUpResponds(i, resp)
    \/ Tick

Spec == Init /\ [][Next]_vars

\* Every request that was sent is answered, by a response or by an error.
FairSpec ==
    /\ Spec
    /\ WF_vars(\E i \in 1..MaxTurns, resp \in SendMessageResponses :
                 SendMessageResponds(i, resp))
    /\ WF_vars(\E i \in 1..MaxTurns, resp \in ToolsListResponses :
                 ToolsListResponds(i, resp))
    /\ WF_vars(\E i \in 1..MaxTurns, resp \in ToolsCallResponses :
                 ToolsCallResponds(i, resp))
    /\ WF_vars(\E i \in 1..MaxTurns, resp \in FollowUpResponses :
                 FollowUpResponds(i, resp))

----------------------------------------------------------------------------
(* The functions of the configuration and of MCPClient on their own:
   validateConfig on every environment, and fetchSpecAndInvoke of part_001,
   step by step, on one tool of the catalog and one argument payload *)

\* list_journeys published with page_size required.
RequiredWithDefaultTool ==
    [ListJourneysTool EXCEPT !.inputSchema.required = <<"page_size">>]

\* A tool published with properties: {} and required: [].
NoParametersTool ==
    [name |-> "list_journeys",
     description |-> "List all marketing journeys from Inflection.io.",
     inputSchema |->
        [hasProperties |-> TRUE,
         properties |-> [f \in {} |-> StringField],
         hasRequired |-> TRUE,
         required |-> <<>>]]

\* A tool published with an inputSchema that has neither properties nor
\* required.
SchemalessTool ==
    [name |-> "list_journeys",
     description |-> "List all marketing journeys from Inflection.io.",
     inputSchema |->
        [hasProperties |-> FALSE,
         properties |-> [f \in {} |-> StringField],
         hasRequired |-> FALSE,
         required |-> <<>>]]

ProbeTools ==
    { ListJourneysTool, GetEmailReportsTool, RequiredWithDefaultTool,
      NoParametersTool, SchemalessTool }

\* Values JSON.parse may hand to fetchSpecAndInvoke.
ProbeArguments ==
    { JsonNull,
      Obj(EmptyObject),
      Obj("page_size" :> Num(5)),
      Obj("page_size" :> Num(500)),
      Obj("page_size" :> Num(0) @@ "page_number" :> Num(0)),
      Obj("page_size" :> Str("ten")),
      Obj("page_number" :> Num(2) @@ "search_keyword" :> Str("")),
      Obj("journey_id" :> Str("j1")),
      Obj("journey_id" :> Num(7) @@ "limit" :> Str("5")),
      Obj("journey_id" :> Str("j1") @@ "constructor" :> Str("x")),
      Obj("page_size" :> Num(100) @@ "page_number" :> Num(1)),
      Obj("page_size" :> Num(1) @@ "search_keyword" :> JsonTrue) }

\* The ways a POST to the tool host may end.
ProbeExchanges == { NetworkFailure, HttpFailure, RpcFailure, RpcSuccess }

Probe(tool, arguments_, http) ==
    [NoProbe EXCEPT !.pc = "input", !.tool = tool, !.arguments = arguments_,
                    !.http = http]

\* The answer to tools/list that publishes the tool of the probe.
ProbeCatalog ==
    [http |-> RpcSuccess, result |-> [hasTools |-> TRUE, tools |-> <<probe.tool>>]]

ProbeInit ==
    /\ messages = << Message(GreetingId, Greeting, "bot", FALSE, "") >>
    /\ isLoading = FALSE
    /\ openaiHistory = << ChatMessage("assistant", Greeting, "") >>
    /\ inputValue = ""
    /\ now = StartTime
    /\ mcpModule = ValidatingClient
    /\ calls = <<>>
    /\ openaiLog = <<>>
    /\ mcpLog = <<>>
    /\ probe \in { Probe(tool, arguments_, http) :
                      tool \in ProbeTools, arguments_ \in ProbeArguments,
                      http \in ProbeExchanges }
    /\ env \in Envs
    /\ configErrors = <<>>
    /\ mounted = FALSE

\* const processedArgs = this.processArguments(arguments_, toolSpec.inputSchema)
ProbeProcess ==
    /\ probe.pc = "input"
    /\ probe' = [probe EXCEPT
                   !.pc = "processed",
                   !.processedArgs = processArguments(probe.arguments,
                                                      probe.tool.inputSchema)]
    /\ UNCHANGED <<messages, isLoading, openaiHistory, inputValue, now, mcpModule,
                   calls, openaiLog, mcpLog, env, configErrors, mounted>>

\* this.validateArguments(toolName, processedArgs, toolSpec.inputSchema)
ProbeValidate ==
    /\ probe.pc = "processed"
    /\ probe' = [probe EXCEPT
                   !.pc = "validated",
                   !.errors = ValidationErrors(probe.processedArgs,
                                               probe.tool.inputSchema),
                   !.validation = validateArguments(probe.tool.name, probe.processedArgs,
                                                    probe.tool.inputSchema)]
    /\ UNCHANGED <<messages, isLoading, openaiHistory, inputValue, now, mcpModule,
                   calls, openaiLog, mcpLog, env, configErrors, mounted>>

\* processArguments again, on its own result.
ProbeReprocess ==
    /\ probe.pc = "validated"
    /\ probe' = [probe EXCEPT
                   !.pc = "reprocessed",
                   !.again = processArguments(Obj(probe.processedArgs),
                                              probe.tool.inputSchema)]
    /\ UNCHANGED <<messages, isLoading, openaiHistory, inputValue, now, mcpModule,
                   calls, openaiLog, mcpLog, env, configErrors, mounted>>

\* fetchSpecAndInvoke as a whole, up to its tools/call request.
ProbeInvoke ==
    /\ probe.pc = "reprocessed"
    /\ probe' = [probe EXCEPT
                   !.pc = "done",
                   !.outcome = fetchSpecAndInvoke(mcpModule, probe.tool.name,
                                                  probe.arguments, ProbeCatalog)]
    /\ UNCHANGED <<messages, isLoading, openaiHistory, inputValue, now, mcpModule,
                   calls, openaiLog, mcpLog, env, configErrors, mounted>>

\* The body of the POST of the probe: a result when the exchange is a 2xx
\* response without an error field, none otherwise.
ProbeListAnswer ==
    [http |-> probe.http,
     result |-> IF probe.http = RpcSuccess
                THEN [hasTools |-> TRUE, tools |-> <<probe.tool>>]
                ELSE [hasTools |-> FALSE, tools |-> <<>>]]

ProbeCallAnswer ==
    [http |-> probe.http,
     result |-> IF probe.http = RpcSuccess
                THEN [hasContent |-> TRUE, content |-> <<TextBlock("A")>>, total |-> 0]
                ELSE [hasContent |-> FALSE, content |-> <<>>, total |-> 0]]

\* getToolSpec and invokeTool, each on a POST that ends as probe.http says.
ProbeRpc ==
    /\ probe.pc = "done"
    /\ probe' = [probe EXCEPT
                   !.pc = "answered",
                   !.listed = getToolSpec(probe.tool.name, ProbeListAnswer),
                   !.invoked = invokeTool(probe.tool.name, ProbeCallAnswer)]
    /\ UNCHANGED <<messages, isLoading, openaiHistory, inputValue, now, mcpModule,
                   calls, openaiLog, mcpLog, env, configErrors, mounted>>

ProbeNext ==
    \/ Mount
    \/ ProbeProcess
    \/ ProbeValidate
    \/ ProbeReprocess
    \/ ProbeInvoke
    \/ ProbeRpc

ProbeSpec == ProbeInit /\ [][ProbeNext]_vars

----------------------------------------------------------------------------
(* Properties *)

IsPrefix(xs, ys) == Len(xs) <= Len(ys) /\ SubSeq(ys, 1, Len(xs)) = xs

Range(xs) == { xs[k] : k \in DOMAIN xs }

\* The requests invocation i of sendMessage has sent to the tool host.
ToolHostRequests(i) == { k \in DOMAIN mcpLog : mcpLog[k].call = i }

ToolsCallRequests(i) == { k \in ToolHostRequests(i) : mcpLog[k].method = "tools/call" }

KnownCatalog == {"list_journeys", "get_email_reports"}

\* C1, as claimed: every tool request whose tool name is not in the known
\* catalog fails with the unsupported-tool error, and no request of that turn
\* reaches the tool host.
C1_Original ==
    \A i \in DOMAIN calls :
      LET call == calls[i].response.function_call IN
        (call.present /\ call.name \notin KnownCatalog) =>
            /\ calls[i].pc = "returned"
            /\ calls[i].error =
                 "Error handling function call: Unsupported tool: " \o call.name
            /\ ToolHostRequests(i) = {}

\* C1, amended: every tool request whose tool name is not in the known catalog
\* fails, and no request of that turn (tools/list or tools/call) reaches the
\* tool host; the failure is the unsupported-tool error whenever the argument
\* payload parses (an unparsable payload fails first, with the parse error).
C1_UnknownToolFailsFast ==
    \A i \in DOMAIN calls :
      LET call == calls[i].response.function_call IN
        (call.present /\ call.name \notin KnownCatalog) =>
            /\ calls[i].pc = "returned"
            /\ calls[i].error # ""
            /\ JSONparse(call.arguments).ok =>
                 calls[i].error =
                   "Error handling function call: Unsupported tool: " \o call.name
            /\ ToolHostRequests(i) = {}

C1_Witness ==
    \E i \in DOMAIN calls :
        /\ calls[i].response.function_call.name = "delete_journey"
        /\ calls[i].response.function_call.arguments = "{}"
        /\ calls[i].pc = "returned"
        /\ calls[i].error = "Error handling function call: Unsupported tool: delete_journey"
        /\ mcpLog = <<>>

\* The fields the fetched schema of invocation i lists as required and the
\* argument map the model sent lacks.
MissingRequired(i) ==
    IF calls[i].toolSpec = <<>> THEN {}
    ELSE { f \in Range(calls[i].toolSpec[1].inputSchema.required) :
             f \notin DOMAIN Spread(calls[i].args) }

\* C2, as claimed: when the argument map lacks a field the fetched schema lists
\* as required, the composite operation fails with a validation error that
\* lists that field, and no tools/call request is sent.
C2_Original ==
    \A i \in DOMAIN calls :
      MissingRequired(i) # {} =>
        LET toolName == calls[i].response.function_call.name
            schema == calls[i].toolSpec[1].inputSchema
            errors == ValidationErrors(processArguments(calls[i].args, schema), schema)
        IN  /\ calls[i].pc = "returned"
            /\ \A f \in MissingRequired(i) :
                 ("Missing required field: " \o f) \in Range(errors)
            /\ calls[i].error =
                 "Error handling function call: Invalid arguments for " \o toolName
                 \o ": " \o Join(errors, ", ")
            /\ ToolsCallRequests(i) = {}

\* C3, as claimed: every tools/call request carries an argument map that
\* passes validation against the schema fetched in the same operation.
C3_Original ==
    \A k \in DOMAIN mcpLog :
      mcpLog[k].method = "tools/call" =>
        LET i == mcpLog[k].call IN
          /\ calls[i].toolSpec # <<>>
          /\ mcpLog[k].arguments.kind = "object"
          /\ ValidationErrors(mcpLog[k].arguments.obj,
                              calls[i].toolSpec[1].inputSchema) = <<>>

\* C4: the stored history only ever grows at its end: every step leaves the
\* history it found as a prefix of the history it stores.
C4_HistoryAppendOnly == [][IsPrefix(openaiHistory, openaiHistory')]_vars

\* A failed turn, then a turn completed through a tool call.
C4_Witness ==
    /\ Len(calls) = 2
    /\ calls[1].pc = "returned" /\ calls[1].error # ""
    /\ calls[2].pc = "returned" /\ calls[2].finalResponse # ""
    /\ Len(openaiHistory) = 6

\* C5: the step that completes a turn through a tool call and a follow-up
\* leaves the history of before the turn plus exactly user, assistant (tool
\* request), function (tool result), assistant (final), and the bot message
\* of the turn shows the final answer.
C5_HappyPath ==
    [][\A i \in DOMAIN calls :
        (calls[i].pc = "followUp" /\ calls'[i].pc = "returned" /\ calls'[i].error = "") =>
          LET before == SubSeq(calls[i].updatedHistory, 1,
                               Len(calls[i].updatedHistory) - 1)
              added == SubSeq(openaiHistory', Len(before) + 1, Len(openaiHistory'))
              final == calls'[i].finalResponse
          IN  /\ IsPrefix(before, openaiHistory')
              /\ Len(added) = 4
              /\ added[1] = [role |-> "user", content |-> calls[i].content, name |-> ""]
              /\ added[2] = [role |-> "assistant",
                             content |-> calls[i].response.content, name |-> ""]
              /\ added[3].role = "function"
              /\ added[3].name = calls[i].response.function_call.name
              /\ added[4] = [role |-> "assistant", content |-> final, name |-> ""]
              /\ final # ""
              /\ \E k \in DOMAIN messages' :
                    /\ messages'[k].id = calls[i].assistantMessageId
                    /\ messages'[k].sender = "bot"
                    /\ messages'[k].content = final
                    /\ ~messages'[k].isLoading
      ]_vars

C5_Witness ==
    \E i \in DOMAIN calls :
        /\ calls[i].pc = "returned"
        /\ calls[i].response.function_call.name = "list_journeys"
        /\ calls[i].finalResponse = "Here are your journeys: A, B."
        /\ ToolsCallRequests(i) # {}

\* C6, as claimed: the step on which tool resolution or invocation fails
\* leaves the history of before the turn plus the user entry and the assistant
\* tool-request entry, and no tool-result entry.
C6_Original ==
    [][\A i \in DOMAIN calls :
        (calls[i].pc \in {"tools/list", "tools/call"} /\ calls'[i].pc = "returned") =>
          openaiHistory' =
            Append(calls[i].updatedHistory,
                   [role |-> "assistant", content |-> calls[i].response.content,
                    name |-> ""])
      ]_vars

\* C7, as claimed: whenever the busy flag is false no message is pending.
C7_Original ==
    ~isLoading => \A k \in DOMAIN messages : ~messages[k].isLoading

\* C8: at most one invocation of sendMessage is in flight at any time.
C8_OneTurnInFlight == Cardinality(InFlight) <= 1

\* A turn in flight while the input box holds a text that would be accepted.
C8_Witness ==
    /\ InFlight # {}
    /\ trim(inputValue) # ""
    /\ Len(calls) < MaxTurns

\* C9: whenever the busy flag is set it is eventually cleared, given that
\* every request is answered.
C9_ReturnsToIdle == isLoading ~> ~isLoading

\* Idle again after a turn that failed at the follow-up call.
C9_Witness ==
    /\ ~isLoading
    /\ \E i \in DOMAIN calls :
          /\ calls[i].pc = "returned"
          /\ calls[i].historyWithFunction # <<>>
          /\ calls[i].error # ""

\* C10: the step that ends a turn leaves either the answer of the turn on
\* display (no error caught) or, as the last message, a bot message whose
\* error detail is the error caught, which is not empty.
C10_NoErrorSwallowed ==
    [][\A i \in DOMAIN calls :
        (calls[i].pc # "returned" /\ calls'[i].pc = "returned") =>
          LET closure == calls'[i]
              last == messages'[Len(messages')]
          IN  IF closure.error # ""
              THEN last.sender = "bot" /\ last.error = closure.error
              ELSE IF closure.response.function_call.present
              THEN /\ closure.finalResponse # ""
                   /\ \E k \in DOMAIN messages' :
                        /\ messages'[k].id = closure.assistantMessageId
                        /\ messages'[k].sender = "bot"
                        /\ messages'[k].content = closure.finalResponse
                        /\ ~messages'[k].isLoading
              ELSE /\ last.sender = "bot"
                   /\ last.content # ""
                   /\ last.error = ""
                   /\ ~last.isLoading
      ]_vars

\* A turn whose tool-call payload did not parse, with its error on display.
C10_Witness ==
    \E i \in DOMAIN calls :
        /\ calls[i].pc = "returned"
        /\ calls[i].error =
             "Error handling function call: Unexpected token o in JSON at position 1"
        /\ messages[Len(messages)].error = calls[i].error

\* The requests invocation i of sendMessage has sent to the chat model.
ModelRequests(i) == { k \in DOMAIN openaiLog : openaiLog[k].call = i }

\* C11: an invocation whose first response carried no function_call and no
\* error has returned, after exactly one request to the chat model (the one
\* that offers the functions) and none to the tool host.
C11_PlainAnswerOneRoundTrip ==
    \A i \in DOMAIN calls :
      (/\ calls[i].pc # "sendMessage"
       /\ ~calls[i].response.function_call.present
       /\ calls[i].error = "") =>
          /\ calls[i].pc = "returned"
          /\ Cardinality(ModelRequests(i)) = 1
          /\ \A k \in ModelRequests(i) : openaiLog[k].functions
          /\ ToolHostRequests(i) = {}

\* A plain answer given after a turn that went through the tool host.
C11_Witness ==
    /\ Len(calls) = 2
    /\ ToolsCallRequests(1) # {}
    /\ calls[2].pc = "returned"
    /\ calls[2].error = ""
    /\ ~calls[2].response.function_call.present
    /\ calls[2].response.content = "Hello there."
    /\ messages[Len(messages)].content = "Hello there."

\* In the message list h, entry k is the result of a tool that the assistant
\* entry just before it requested: some invocation i was answered with a
\* function_call of that name, and entry k - 1 is the assistant entry made
\* from that answer, right after the history invocation i started from.
FollowsItsRequest(h, k) ==
    /\ k > 1
    /\ h[k - 1].role = "assistant"
    /\ \E i \in DOMAIN calls :
          /\ calls[i].response.function_call.present
          /\ calls[i].response.function_call.name = h[k].name
          /\ k - 1 = Len(calls[i].updatedHistory) + 1
          /\ h[k - 1] = [role |-> "assistant", content |-> calls[i].response.content,
                         name |-> ""]

C13_DefaultingKeepsExplicit ==
    LET given == Spread(probe.arguments) IN
      /\ probe.pc \in {"processed", "validated", "reprocessed", "done"} =>
            \A f \in DOMAIN given :
                f \in DOMAIN probe.processedArgs /\ probe.processedArgs[f] = given[f]
      /\ probe.pc \in {"reprocessed", "done"} => probe.again = probe.processedArgs
      /\ (probe.pc = "done" /\ probe.outcome.ok) =>
            \A f \in DOMAIN given :
                /\ f \in DOMAIN probe.outcome.arguments.obj
                /\ probe.outcome.arguments.obj[f] = given[f]

\* page_size 5 given where the default is 30: it is sent as 5, next to the
\* default of page_number.
C13_Witness ==
    /\ probe.pc = "done"
    /\ probe.tool = ListJourneysTool
    /\ probe.arguments = Obj("page_size" :> Num(5))
    /\ probe.outcome.ok
    /\ probe.outcome.arguments = Obj("page_size" :> Num(5) @@ "page_number" :> Num(1))
    /\ probe.again = probe.processedArgs

\* The argument payload of invocation i is not a valid structured object: it
\* does not parse, or it parses to something that is no object.
MalformedPayload(i) ==
    LET args == JSONparse(calls[i].response.function_call.arguments) IN
      /\ calls[i].response.function_call.present
      /\ ~args.ok \/ args.value.kind # "object"

\* C14, as claimed: a turn whose tool request carries a malformed argument
\* payload has ended with an error, has sent no request to the tool host and
\* has appended no function entry to the history.
C14_Original ==
    \A i \in DOMAIN calls :
      MalformedPayload(i) =>
          /\ calls[i].pc = "returned"
          /\ calls[i].error # ""
          /\ ToolHostRequests(i) = {}
          /\ calls[i].historyWithFunction = <<>>

\* C15, as claimed: every request of sendMessage offers exactly one function
\* definition, the dispatcher named mcp_invoke, and never one function per
\* tool.
C15_Original ==
    \A k \in DOMAIN openaiLog :
      openaiLog[k].functions => RequestFunctions(openaiLog[k]) = << "mcp_invoke" >>

\* C16: while validateConfig reports an error no turn is accepted and no
\* request is sent to the chat model or to the tool host; once the effect of
\* the first render has run, the chat and its input are not rendered.
C16_ConfigErrorBlocks ==
    validateConfig # <<>> =>
        /\ calls = <<>>
        /\ ~isLoading
        /\ openaiLog = <<>>
        /\ mcpLog = <<>>
        /\ Len(messages) = 1
        /\ mounted => configErrors = validateConfig /\ ~InputRendered

\* The user typed into the input of the first render; the effect ran and the
\* configuration error is on display.
C16_Witness ==
    /\ env.VITE_OPENAI_API_KEY = PlaceholderKey
    /\ mounted
    /\ Len(configErrors) = 1
    /\ inputValue = "list journeys"
    /\ calls = <<>>

\* C17, as claimed: once validateConfig has run, its error list is not empty
\* whenever the API credential is unset or is the placeholder, and whenever
\* the tool host base URL is unset.
C17_Original ==
    mounted =>
        /\ env.VITE_OPENAI_API_KEY \in {"", PlaceholderKey} => configErrors # <<>>
        /\ env.VITE_MCP_SERVER_URL = "" => configErrors # <<>>

IsTextBlock(block) == block.type = "text"

RECURSIVE JoinedLines(_, _)
\* The texts of the first n blocks of texts, each on a line of its own.
JoinedLines(texts, n) ==
    IF n = 0 THEN ""
    ELSE IF n = 1 THEN texts[1].text
    ELSE JoinedLines(texts, n - 1) \o "\n" \o texts[n].text

C19_FollowUpOnlyAfterToolSuccess ==
    /\ \A k \in DOMAIN openaiLog :
          ~openaiLog[k].functions =>
            LET i == openaiLog[k].call
                sent == openaiLog[k].messages
            IN  /\ calls[i].response.function_call.present
                /\ JSONparse(calls[i].response.function_call.arguments).ok
                /\ calls[i].response.function_call.name \in KnownCatalog
                /\ Cardinality(ToolsCallRequests(i)) = 1
                /\ calls[i].toolResponse.kind = "http"
                /\ ResponseOk(calls[i].toolResponse)
                /\ calls[i].toolResponse.code = 0
                /\ sent[Len(sent)].role = "function"
                /\ sent[Len(sent)].name = calls[i].response.function_call.name
                /\ IsPrefix(sent, openaiHistory)
    /\ \A i \in DOMAIN calls :
          Cardinality({ k \in ModelRequests(i) : ~openaiLog[k].functions }) <= 1

\* A turn that made its follow-up request, after a turn whose tools/call was
\* answered with an RPC error and made none.
C19_Witness ==
    /\ Len(calls) = 2
    /\ calls[1].toolResponse = RpcFailure
    /\ calls[1].pc = "returned"
    /\ Cardinality(ModelRequests(1)) = 1
    /\ calls[2].pc = "followUp"
    /\ Cardinality(ModelRequests(2)) = 2

\* Every way the argument map a violates the schema, as the message
\* validateArguments has for it.
Violations(a, schema) ==
    LET known == IF schema.hasProperties THEN DOMAIN a \cap DOMAIN schema.properties
                 ELSE {}
        integers == { f \in known : schema.properties[f].type = "integer" }
        strings == { f \in known : schema.properties[f].type = "string" }
        numeric == { f \in integers : a[f].t = "number" }
    IN  { "Missing required field: " \o f :
            f \in { g \in Range(schema.required) : schema.hasRequired /\ g \notin DOMAIN a } }
        \cup { "Unknown field: " \o f :
                 f \in { g \in DOMAIN a :
                           /\ schema.hasProperties
                           /\ HasNoFieldSchema(schema.properties, g) } }
        \cup { "Field " \o f \o " must be a number" : f \in integers \ numeric }
        \cup { "Field " \o f \o " must be a string" :
                 f \in { g \in strings : a[g].t # "string" } }
        \cup { "Field " \o f \o " must be at least " \o ToString(schema.properties[f].minimum) :
                 f \in { g \in numeric : /\ schema.properties[g].hasMinimum
                                           /\ a[g].n < schema.properties[g].minimum } }
        \cup { "Field " \o f \o " must be at most " \o ToString(schema.properties[f].maximum) :
                 f \in { g \in numeric : /\ schema.properties[g].hasMaximum
                                           /\ a[g].n > schema.properties[g].maximum } }

UndeclaredFields ==
    LET schema == probe.tool.inputSchema
        declared == IF schema.hasProperties THEN DOMAIN schema.properties ELSE {}
    IN  DOMAIN probe.processedArgs \ declared

\* C21, as claimed: for every schema, also one that declares no parameters,
\* every argument field the schema does not declare produces an unknown-field
\* error, and fetchSpecAndInvoke fails without invoking the tool.
C21_Original ==
    /\ probe.pc \in {"validated", "reprocessed", "done"} =>
          \A f \in UndeclaredFields : ("Unknown field: " \o f) \in Range(probe.errors)
    /\ (probe.pc = "done" /\ UndeclaredFields # {}) => ~probe.outcome.ok

\* The fields of the argument map validateArguments was given that the schema
\* of the probe declares.
DeclaredFields ==
    LET schema == probe.tool.inputSchema IN
      IF schema.hasProperties
      THEN DOMAIN probe.processedArgs \cap DOMAIN schema.properties
      ELSE {}

\* Those declared as integer with a minimum or a maximum, holding a number.
RangedFields ==
    { f \in DeclaredFields :
        LET fieldSchema == probe.tool.inputSchema.properties[f] IN
          /\ fieldSchema.type = "integer"
          /\ fieldSchema.hasMinimum \/ fieldSchema.hasMaximum
          /\ probe.processedArgs[f].t = "number" }

BelowMinimum(f) ==
    LET fieldSchema == probe.tool.inputSchema.properties[f] IN
      fieldSchema.hasMinimum /\ probe.processedArgs[f].n < fieldSchema.minimum

AboveMaximum(f) ==
    LET fieldSchema == probe.tool.inputSchema.properties[f] IN
      fieldSchema.hasMaximum /\ probe.processedArgs[f].n > fieldSchema.maximum

WrongTypeErrors(f) ==
    { "Field " \o f \o " must be a number", "Field " \o f \o " must be a string" }

TypeMismatch(f) ==
    LET fieldSchema == probe.tool.inputSchema.properties[f] IN
      \/ fieldSchema.type = "integer" /\ probe.processedArgs[f].t # "number"
      \/ fieldSchema.type = "string" /\ probe.processedArgs[f].t # "string"

\* C23: for every argument field the schema declares, a value that is not of
\* the declared type (integer: not a number; string: not a string) produces
\* exactly one wrong-type error, the one of the declared type, and a value of
\* the declared type produces none; with a mismatch fetchSpecAndInvoke fails.
C23_TypeChecked ==
    /\ probe.pc \in {"validated", "reprocessed", "done"} =>
          \A f \in DeclaredFields :
            LET fieldSchema == probe.tool.inputSchema.properties[f]
                pushed == { k \in DOMAIN probe.errors : probe.errors[k] \in WrongTypeErrors(f) }
            IN  /\ Cardinality(pushed) = IF TypeMismatch(f) THEN 1 ELSE 0
                /\ \A k \in pushed :
                      probe.errors[k] =
                        "Field " \o f \o " must be a "
                        \o (IF fieldSchema.type = "integer" THEN "number" ELSE "string")
    /\ probe.pc = "done" =>
          \A f \in DeclaredFields : TypeMismatch(f) => ~probe.outcome.ok

\* get_email_reports with journey_id 7: a number where a string is declared.
C23_Witness ==
    /\ probe.pc = "done"
    /\ probe.tool = GetEmailReportsTool
    /\ probe.arguments = Obj("journey_id" :> Num(7) @@ "limit" :> Str("5"))
    /\ ~probe.outcome.ok
    /\ probe.outcome.error =
         "Invalid arguments for get_email_reports: Field journey_id must be a string, Unknown field: limit"

\* The parameters the schema of the probe declares with a default and the
\* argument payload lacks.
DefaultedFields ==
    LET schema == probe.tool.inputSchema IN
      IF schema.hasProperties
      THEN { f \in DOMAIN schema.properties :
               f \notin DOMAIN Spread(probe.arguments) /\ schema.properties[f].hasDefault }
      ELSE {}

\* The argument map `merged` is the payload of the probe plus the default of
\* every field of DefaultedFields, and nothing else.
IsPayloadPlusDefaults(merged) ==
    LET given == Spread(probe.arguments) IN
      /\ DOMAIN merged = DOMAIN given \cup DefaultedFields
      /\ \A f \in DOMAIN given : merged[f] = given[f]
      /\ \A f \in DefaultedFields :
            merged[f] = probe.tool.inputSchema.properties[f].default

\* C24: fetchSpecAndInvoke sends tools/call exactly when the payload plus the
\* defaults of the declared parameters it lacks passes validation (a required
\* parameter that only its default supplies does not count as missing), and
\* the argument map it sends is that payload plus those defaults and nothing
\* else.
C24_DefaultsThenValidation ==
    /\ probe.pc \in {"processed", "validated", "reprocessed", "done"} =>
          IsPayloadPlusDefaults(probe.processedArgs)
    /\ probe.pc = "done" =>
          /\ probe.outcome.ok <=>
                ValidationErrors(probe.processedArgs, probe.tool.inputSchema) = <<>>
          /\ probe.outcome.ok =>
                /\ probe.outcome.arguments.kind = "object"
                /\ IsPayloadPlusDefaults(probe.outcome.arguments.obj)

\* page_size is required and the payload {} lacks it: its default 30 is filled
\* in before validation, which passes, and {page_size: 30, page_number: 1} is
\* sent.
C24_Witness ==
    /\ probe.pc = "done"
    /\ probe.tool = RequiredWithDefaultTool
    /\ probe.arguments = Obj(EmptyObject)
    /\ probe.outcome.ok
    /\ probe.outcome.arguments = Obj("page_size" :> Num(30) @@ "page_number" :> Num(1))

\* The tools/list request of invocation i was answered with a result, and
\* the result lists a tool of this name.
ListedTool(i, name) ==
    LET resp == calls[i].listResponse IN
      /\ resp.http.kind = "http"
      /\ ResponseOk(resp.http)
      /\ resp.http.code = 0
      /\ resp.result.hasTools
      /\ \E k \in DOMAIN resp.result.tools : resp.result.tools[k].name = name

\* C25: every tools/call request comes after the tools/list request of the
\* same invocation, whose answer listed the tool it names; an invocation whose
\* tools/list was answered with a result that does not list the tool (or
\* carries no tools) has failed with the not-found error and sends no
\* tools/call.
C25_CallOnlyAfterListing ==
    /\ \A k \in DOMAIN mcpLog :
          mcpLog[k].method = "tools/call" =>
            LET i == mcpLog[k].call IN
              /\ \E j \in 1..(k - 1) :
                    mcpLog[j].call = i /\ mcpLog[j].method = "tools/list"
              /\ mcpLog[k].name = calls[i].response.function_call.name
              /\ ListedTool(i, mcpLog[k].name)
    /\ \A i \in DOMAIN calls :
          LET toolName == calls[i].response.function_call.name
              resp == calls[i].listResponse
          IN  (/\ resp.http.kind = "http"
               /\ makeRPCRequest(resp.http).ok
               /\ ~ListedTool(i, toolName)) =>
                  /\ calls[i].pc = "returned"
                  /\ calls[i].error =
                        "Error handling function call: Error fetching tool spec for "
                        \o toolName \o ": Tool '" \o toolName \o "' not found"
                  /\ ToolsCallRequests(i) = {}

\* get_email_reports requested, tools/list answered with list_journeys alone:
\* not found, and the only request to the tool host is tools/list; the turn
\* before found its tool and went on to tools/call.
C25_Witness ==
    /\ Len(calls) = 2
    /\ ToolsCallRequests(1) # {}
    /\ calls[2].pc = "returned"
    /\ calls[2].response.function_call.name = "get_email_reports"
    /\ calls[2].listResponse.result.tools = <<ListJourneysTool>>
    /\ calls[2].error =
         "Error handling function call: Error fetching tool spec for get_email_reports: Tool 'get_email_reports' not found"
    /\ Cardinality(ToolHostRequests(2)) = 1

\* The POST of the probe did not end as a 2xx response without error field.
ExchangeFailed ==
    \/ probe.http.kind = "network_error"
    \/ probe.http.status < 200 \/ probe.http.status > 299
    \/ probe.http.code # 0

\* C26: tools/list and tools/call alike fail, handing no tool and no result to
\* their caller, when fetch rejects, when the response is not 2xx and when a
\* 2xx body carries an error; they hand over the result of the body exactly
\* for a 2xx response without error.  The error says which of the three
\* happened.
C26_RpcFailsWithoutResult ==
    probe.pc = "answered" =>
        LET cause ==
              IF probe.http.kind = "network_error" THEN probe.http.message
              ELSE IF probe.http.code = 0
              THEN "HTTP error: " \o ToString(probe.http.status) \o " "
                   \o probe.http.statusText
              ELSE "RPC error: " \o ToString(probe.http.code) \o " - "
                   \o probe.http.message
        IN  /\ probe.listed.ok <=> ~ExchangeFailed
            /\ probe.invoked.ok <=> ~ExchangeFailed
            /\ ExchangeFailed =>
                  /\ probe.listed.tool = <<>>
                  /\ probe.listed.error =
                        "Error fetching tool spec for " \o probe.tool.name
                        \o ": RPC request failed: " \o cause
                  /\ probe.invoked.error =
                        "Error invoking tool " \o probe.tool.name
                        \o ": RPC request failed: " \o cause
            /\ ~ExchangeFailed =>
                  /\ probe.listed.tool = << probe.tool >>
                  /\ probe.invoked.result = ProbeCallAnswer.result

\* A 2xx response whose body carries an error: both operations failed with
\* the RPC error.
C26_Witness ==
    /\ probe.pc = "answered"
    /\ probe.http = RpcFailure
    /\ ~probe.listed.ok
    /\ ~probe.invoked.ok
    /\ probe.invoked.error =
         "Error invoking tool list_journeys: RPC request failed: RPC error: -32603 - Internal error"

\* The first request to the chat model was not answered with a choice.
FirstCallFailed(resp) ==
    \/ resp.http.kind = "network_error"
    \/ resp.http.status < 200 \/ resp.http.status > 299
    \/ ~resp.hasChoice

\* C27: the step on which the first request to the chat model fails (fetch
\* rejected, a non-2xx response, a body without choices) ends the turn: the
\* invocation returns with the error and the busy flag is cleared, the stored
\* history is the history of before the turn plus the user entry and nothing
\* else, the one message added is a bot message that carries the error and is
\* not pending, and the turn has sent nothing to the tool host.
C27_FirstCallFailure ==
    [][\A i \in DOMAIN calls : \A resp \in SendMessageResponses :
        (FirstCallFailed(resp) /\ SendMessageResponds(i, resp)) =>
          LET before == SubSeq(calls[i].updatedHistory, 1,
                               Len(calls[i].updatedHistory) - 1)
          IN  /\ calls'[i].pc = "returned"
              /\ calls'[i].error # ""
              /\ ~isLoading'
              /\ openaiHistory' =
                    Append(before, [role |-> "user", content |-> calls[i].content,
                                    name |-> ""])
              /\ Len(messages') = Len(messages) + 1
              /\ SubSeq(messages', 1, Len(messages)) = messages
              /\ messages'[Len(messages')].sender = "bot"
              /\ messages'[Len(messages')].error = calls'[i].error
              /\ ~messages'[Len(messages')].isLoading
              /\ calls'[i].assistantMessageId = ""
              /\ { k \in DOMAIN mcpLog' : mcpLog'[k].call = i } = {}
      ]_vars

\* A turn ended by a rejected fetch of the first request, after a turn that
\* went through the tool host: the history ends with the user entry.
C27_Witness ==
    /\ Len(calls) = 2
    /\ ToolsCallRequests(1) # {}
    /\ calls[2].pc = "returned"
    /\ calls[2].error = "Error communicating with OpenAI: Failed to fetch"
    /\ openaiHistory[Len(openaiHistory)] =
          [role |-> "user", content |-> "list journeys", name |-> ""]
    /\ ToolHostRequests(2) = {}
    /\ ~isLoading

\* The requests of invocation i to the chat model after its first.
FollowUpRequests(i) ==
    { k \in ModelRequests(i) : \E j \in ModelRequests(i) : j < k }

\* C28: every request of a turn to the chat model after its first offers no
\* functions, and its messages are the history the first request carried
\* (everything stored before the turn, then the user entry), then the
\* assistant entry made from the answer that asked for the tool, then the
\* function entry with the name of the tool and its result, and nothing
\* after.
C28_FollowUpRequest ==
    \A i \in DOMAIN calls :
      \A k \in FollowUpRequests(i) :
        LET sent == openaiLog[k].messages
            n == Len(sent)
            call == calls[i].response.function_call
        IN  /\ RequestFunctions(openaiLog[k]) = <<>>
            /\ \E j \in ModelRequests(i) :
                  /\ j < k
                  /\ RequestFunctions(openaiLog[j]) # <<>>
                  /\ openaiLog[j].messages = calls[i].updatedHistory
            /\ n = Len(calls[i].updatedHistory) + 2
            /\ SubSeq(sent, 1, n - 2) = calls[i].updatedHistory
            /\ sent[n - 2] = [role |-> "user", content |-> calls[i].content, name |-> ""]
            /\ call.present
            /\ sent[n - 1] = [role |-> "assistant", content |-> calls[i].response.content,
                               name |-> ""]
            /\ sent[n] = [role |-> "function",
                           content |-> FunctionContent(calls[i].toolResult),
                           name |-> call.name]

\* The follow-up request of a second turn through the tool host: it carries
\* the four entries of the first turn as well.
C28_Witness ==
    /\ Len(calls) = 2
    /\ calls[1].finalResponse # ""
    /\ FollowUpRequests(2) # {}
    /\ \A k \in FollowUpRequests(2) :
          /\ Len(openaiLog[k].messages) = 8
          /\ openaiLog[k].messages[4].role = "function"
          /\ openaiLog[k].messages[8].role = "function"

\* The follow-up request was not answered with a content.
FollowUpFailed(resp) ==
    \/ resp.http.kind = "network_error"
    \/ resp.http.status < 200 \/ resp.http.status > 299
    \/ ~resp.hasChoice
    \/ resp.content = ""

\* C29: the step on which the follow-up request fails, or is answered with an
\* empty content, ends the turn with an error: the invocation returns with
\* the error and without a final response, the stored history is the one sent
\* with the follow-up, which ends with the function entry, and the display
\* keeps every message as it was, the pending message of the turn still
\* pending with its placeholder text, and gains one bot message with the error.
C29_FollowUpFailure ==
    [][\A i \in DOMAIN calls : \A resp \in FollowUpResponses :
        (FollowUpFailed(resp) /\ FollowUpResponds(i, resp)) =>
          /\ calls'[i].pc = "returned"
          /\ calls'[i].error # ""
          /\ calls'[i].finalResponse = ""
          /\ ~isLoading'
          /\ openaiHistory' = calls[i].historyWithFunction
          /\ openaiHistory'[Len(openaiHistory')].role = "function"
          /\ Len(messages') = Len(messages) + 1
          /\ SubSeq(messages', 1, Len(messages)) = messages
          /\ messages'[Len(messages')].sender = "bot"
          /\ messages'[Len(messages')].error = calls'[i].error
          /\ \E k \in DOMAIN messages :
                /\ messages'[k].id = calls[i].assistantMessageId
                /\ messages'[k].isLoading
                /\ messages'[k].content =
                      Or(calls[i].response.content, "I'm processing your request...")
      ]_vars

\* A turn whose follow-up came back empty: the history ends with the function
\* entry and the message of the turn is still pending.
C29_Witness ==
    \E i \in DOMAIN calls :
        /\ calls[i].pc = "returned"
        /\ calls[i].error =
             "Error sending follow-up message: No content in OpenAI response"
        /\ openaiHistory = calls[i].historyWithFunction
        /\ \E k \in DOMAIN messages :
              messages[k].id = calls[i].assistantMessageId /\ messages[k].isLoading

\* C30: no step removes or reorders a message of the display list or changes
\* the id, sender or error of one; a step changes a message only when it is
\* the step that completes the follow-up of a turn and the message has the id
\* of the pending message of that turn, and then it sets the content to the
\* final response and ends the loading state.  Every message with another id
\* is kept as it is.
C30_OnlyPendingResolved ==
    [][/\ Len(messages') >= Len(messages)
       /\ \A k \in DOMAIN messages :
            /\ messages'[k].id = messages[k].id
            /\ messages'[k].sender = messages[k].sender
            /\ messages'[k].error = messages[k].error
            /\ messages'[k] # messages[k] =>
                  \E i \in DOMAIN calls :
                    /\ calls[i].pc = "followUp"
                    /\ calls'[i].pc = "returned"
                    /\ calls'[i].error = ""
                    /\ messages[k].id = calls[i].assistantMessageId
                    /\ messages'[k] =
                          [messages[k] EXCEPT !.content = calls'[i].finalResponse,
                                              !.isLoading = FALSE]
      ]_vars

\* The second turn resolved its pending message while the pending message of
\* the first turn, which failed at the tool and has another id, is still as
\* it was.
C30_Witness ==
    /\ Len(calls) = 2
    /\ calls[1].pc = "returned" /\ calls[1].error # ""
    /\ calls[2].pc = "returned" /\ calls[2].finalResponse # ""
    /\ calls[1].assistantMessageId # ""
    /\ calls[1].assistantMessageId # calls[2].assistantMessageId
    /\ \E j, k \in DOMAIN messages :
          /\ j < k
          /\ messages[j].id = calls[1].assistantMessageId
          /\ messages[j].isLoading
          /\ messages[j].content = "I'm processing your request..."
          /\ messages[k].id = calls[2].assistantMessageId
          /\ messages[k].content = calls[2].finalResponse
          /\ ~messages[k].isLoading

\* C31, as claimed: the step that ends a turn with a plain answer shows, as
\* the content of the bot message it adds, the content the model returned,
\* and that same content is the content of the assistant entry it appends to
\* the history.
C31_Original ==
    [][\A i \in DOMAIN calls :
        (/\ calls[i].pc = "sendMessage"
         /\ calls'[i].pc = "returned"
         /\ calls'[i].error = ""
         /\ ~calls'[i].response.function_call.present) =>
            LET shown == messages'[Len(messages')]
                stored == openaiHistory'[Len(openaiHistory')]
            IN  /\ Len(messages') = Len(messages) + 1
                /\ Len(openaiHistory') = Len(openaiHistory) + 1
                /\ shown.sender = "bot"
                /\ stored.role = "assistant"
                /\ shown.content = calls'[i].response.content
                /\ stored.content = calls'[i].response.content
                /\ shown.content = stored.content
      ]_vars

C33_FirstRequestCarriesHistory ==
    [][Len(calls') = Len(calls) + 1 =>
        LET i == Len(calls')
            request == openaiLog'[Len(openaiLog')]
        IN  /\ Len(openaiLog') = Len(openaiLog) + 1
            /\ request.call = i
            /\ request.functions
            /\ request.messages =
                  openaiHistory \o <<[role |-> "user", content |-> inputValue, name |-> ""]>>
            /\ openaiHistory' = request.messages
            /\ calls'[i].updatedHistory = request.messages
            /\ \A j \in DOMAIN calls :
                  /\ IsPrefix(calls[j].updatedHistory, request.messages)
                  /\ IsPrefix(calls[j].historyWithFunction, request.messages)
                  /\ calls[j].finalResponse # "" =>
                        request.messages[Len(calls[j].historyWithFunction) + 1] =
                            [role |-> "assistant", content |-> calls[j].finalResponse,
                             name |-> ""]
                  /\ \A k \in ModelRequests(j) :
                        IsPrefix(openaiLog[k].messages, request.messages)
      ]_vars

\* The second turn has sent its first request; the first turn went through a
\* tool and a final answer, and the request carries all of its entries.
C33_Witness ==
    /\ Len(calls) = 2
    /\ calls[2].pc = "sendMessage"
    /\ calls[1].finalResponse # ""
    /\ LET request == openaiLog[Len(openaiLog)]
           n == Len(calls[1].historyWithFunction)
       IN  /\ request.call = 2
           /\ request.messages = openaiHistory
           /\ Len(request.messages) = n + 2
           /\ request.messages[n].role = "function"
           /\ request.messages[n + 1].content = calls[1].finalResponse
           /\ request.messages[n + 2].role = "user"

\* C34, as claimed: the ids of the displayed messages are pairwise distinct
\* after any sequence of turns, and the step that resolves a pending message
\* by its id changes exactly one message of the list.
C34_Original ==
    /\ [](\A j, k \in DOMAIN messages : j # k => messages[j].id # messages[k].id)
    /\ [][\A i \in DOMAIN calls :
            (/\ calls[i].pc = "followUp"
             /\ calls'[i].pc = "returned"
             /\ calls'[i].error = "") =>
                /\ Len(messages') = Len(messages)
                /\ Cardinality({ k \in DOMAIN messages : messages'[k] # messages[k] }) = 1
         ]_vars

\* C35: whenever a request of a turn (to the chat model or to the tool host)
\* awaits its answer, isLoading is true; the flag is set in the step that
\* sends the turn's first request, and it is cleared only in a step in which
\* the turn returns, after which no request of it is awaited.
C35_BusyWhileInFlight ==
    /\ [](InFlight # {} => isLoading)
    /\ [][(~isLoading /\ isLoading') =>
            /\ Len(calls') = Len(calls) + 1
            /\ calls'[Len(calls')].pc = "sendMessage"
            /\ Len(openaiLog') = Len(openaiLog) + 1
            /\ openaiLog'[Len(openaiLog')].call = Len(calls')
         ]_vars
    /\ [][(isLoading /\ ~isLoading') =>
            /\ \E i \in DOMAIN calls : calls[i].pc # "returned" /\ calls'[i].pc = "returned"
            /\ InFlight' = {}
            /\ Len(openaiLog') = Len(openaiLog)
            /\ Len(mcpLog') = Len(mcpLog)
         ]_vars

\* The second turn awaits the answer to its follow-up request, its fourth
\* request, with the flag set; the first turn has returned.
C35_Witness ==
    /\ Len(calls) = 2
    /\ calls[1].pc = "returned"
    /\ calls[2].pc = "followUp"
    /\ Cardinality(ToolHostRequests(2)) = 2
    /\ Cardinality(ModelRequests(2)) = 2
    /\ isLoading

\* C36: nothing is sent twice. A turn sends at most two requests to the chat
\* model, exactly one that offers the functions and at most one follow-up
\* without them, at most one tools/list request and at most one tools/call
\* request; and once the turn has returned, with an answer or with an
\* error, no further request is sent for it.
C36_NoRetries ==
    /\ [](\A i \in DOMAIN calls :
            /\ Cardinality(ModelRequests(i)) <= 2
            /\ Cardinality({ k \in ModelRequests(i) : openaiLog[k].functions }) = 1
            /\ Cardinality(FollowUpRequests(i)) <= 1
            /\ Cardinality(ToolHostRequests(i) \ ToolsCallRequests(i)) <= 1
            /\ Cardinality(ToolsCallRequests(i)) <= 1
            /\ Cardinality(ToolHostRequests(i)) <= 2)
    /\ [][\A i \in DOMAIN calls :
            /\ calls[i].pc = "returned" =>
                  /\ IsPrefix(openaiLog, openaiLog') /\ IsPrefix(mcpLog, mcpLog')
                  /\ \A k \in DOMAIN openaiLog' : openaiLog'[k].call = i => k <= Len(openaiLog)
                  /\ \A k \in DOMAIN mcpLog' : mcpLog'[k].call = i => k <= Len(mcpLog)
            /\ (calls[i].pc # "returned" /\ calls'[i].pc = "returned"
                    /\ calls'[i].error # "") =>
                  /\ openaiLog' = openaiLog
                  /\ mcpLog' = mcpLog
         ]_vars

\* Two turns returned with an error, one at the follow-up request and one at
\* the tools/call request, each with the requests of a single attempt.
C36_Witness ==
    /\ Len(calls) = 2
    /\ \A i \in DOMAIN calls : calls[i].pc = "returned" /\ calls[i].error # ""
    /\ \E i, j \in DOMAIN calls :
          /\ Cardinality(ModelRequests(i)) = 2
          /\ Cardinality(ToolHostRequests(i)) = 2
          /\ Cardinality(ModelRequests(j)) = 1
          /\ Cardinality(ToolsCallRequests(j)) = 1

\* The texts that are empty or hold white space only.
BlankTexts == { "", "   " }

\* C37: submitting a text that is empty or white space only does nothing.
\* No turn starts from such a text, so no user message, history entry or
\* request carries one; and while no turn is running and the input box holds
\* such a text, no step (a submission included) changes the display list,
\* the history or the busy flag, or sends a request.
C37_BlankSubmitIsNoOp ==
    /\ [][Len(calls') # Len(calls) => inputValue \notin BlankTexts]_vars
    /\ [][(InFlight = {} /\ inputValue \in BlankTexts /\ inputValue' = inputValue) =>
            /\ messages' = messages
            /\ openaiHistory' = openaiHistory
            /\ isLoading' = isLoading
            /\ openaiLog' = openaiLog
            /\ mcpLog' = mcpLog
            /\ calls' = calls
         ]_vars
    /\ [](/\ \A k \in DOMAIN messages :
                messages[k].sender = "user" => messages[k].content \notin BlankTexts
          /\ \A k \in DOMAIN openaiHistory :
                openaiHistory[k].role = "user" => openaiHistory[k].content \notin BlankTexts
          /\ \A i \in DOMAIN calls : calls[i].content \notin BlankTexts)

\* After a first turn, the input box is on display, holds white space only,
\* and no turn is running: a submission is possible and is ignored.
C37_Witness ==
    /\ InputRendered
    /\ inputValue = "   "
    /\ ~isLoading
    /\ Len(calls) = 1
    /\ InFlight = {}
    /\ ENABLED SubmitIgnored

=============================================================================
